---- MODULE Spec2Model ----
(***************************************************************************)
(* Model of src/gmm/algorithm.py: class GMM, the expectation-maximisation  *)
(* fit of a Gaussian mixture (fit), the hard assignment (cluster) and the  *)
(* density primitive (multivariate_normal_pdf).                            *)
(*                                                                         *)
(* Feature vectors are one-dimensional (features has shape (n, 1)), so a   *)
(* mean is a 1-vector and a covariance a 1x1 matrix, each written as its   *)
(* single entry: np.linalg.det of the matrix is that entry, np.linalg.inv  *)
(* is its reciprocal and raises LinAlgError when the entry is 0.           *)
(*                                                                         *)
(* A numpy float is a record [k, v]: k = "num" with v the value in units   *)
(* of 1/ONE, k = "inf" with v the sign, or k = "nan".  Arithmetic rounds   *)
(* to the nearest unit, overflows to inf above FMAX and underflows to 0,   *)
(* and a division by zero yields inf or nan without raising, as numpy's    *)
(* float64 does (a RuntimeWarning, no exception).                          *)
(***************************************************************************)
EXTENDS Integers, Sequences, FiniteSets, TLC

\* ------------------------------------------------------------------------
\* The float type (np.float) and its arithmetic
\* ------------------------------------------------------------------------

\* units per 1.0: the resolution of the float type
ONE == 1024

\* largest finite magnitude, in units: a larger result is inf
FMAX == ONE * ONE

\* working precision of exp and log, in units per 1.0
PREC == ONE * 32

Num(n) == [k |-> "num", v |-> n]

NaN == [k |-> "nan", v |-> 0]

Inf(s) == [k |-> "inf", v |-> s]

Zero == Num(0)

IsNum(a) == a.k = "num"

IsNaN(a) == a.k = "nan"

IsInf(a) == a.k = "inf"

Sign(n) == IF n < 0 THEN -1 ELSE 1

Abs(n) == IF n < 0 THEN -n ELSE n

\* n / d rounded to the nearest integer, d > 0
RDiv(n, d) == (2 * n + d) \div (2 * d)

\* a finite result, or inf when it exceeds the largest finite magnitude
Fin(n) == IF Abs(n) > FMAX THEN Inf(Sign(n)) ELSE Num(n)

FNeg(a) == IF IsNaN(a) THEN NaN ELSE [k |-> a.k, v |-> -a.v]

FAdd(a, b) ==
  IF IsNaN(a) \/ IsNaN(b) THEN NaN
  ELSE IF IsInf(a) /\ IsInf(b) THEN (IF a.v = b.v THEN a ELSE NaN)
  ELSE IF IsInf(a) THEN a
  ELSE IF IsInf(b) THEN b
  ELSE Fin(a.v + b.v)

FSub(a, b) == FAdd(a, FNeg(b))

\* x * y / ONE rounded, computed without leaving 32 bits
MulUnits(x, y) == x * (y \div ONE) + RDiv(x * (y % ONE), ONE)

FMul(a, b) ==
  IF IsNaN(a) \/ IsNaN(b) THEN NaN
  ELSE IF IsInf(a) \/ IsInf(b)
    THEN (IF a.v = 0 \/ b.v = 0 THEN NaN ELSE Inf(Sign(a.v) * Sign(b.v)))
  ELSE Fin(MulUnits(a.v, b.v))

FDiv(a, b) ==
  IF IsNaN(a) \/ IsNaN(b) THEN NaN
  ELSE IF IsInf(a) THEN (IF IsInf(b) THEN NaN ELSE Inf(Sign(a.v) * Sign(b.v)))
  ELSE IF IsInf(b) THEN Zero
  ELSE IF b.v = 0 THEN (IF a.v = 0 THEN NaN ELSE Inf(Sign(a.v)))
  ELSE Fin(Sign(a.v) * Sign(b.v) * RDiv(Abs(a.v) * ONE, Abs(b.v)))

FAbs(a) == IF IsNaN(a) THEN NaN ELSE [k |-> a.k, v |-> Abs(a.v)]

\* a < b; every comparison with nan is false
FLess(a, b) ==
  IF IsNaN(a) \/ IsNaN(b) THEN FALSE
  ELSE IF IsInf(a) THEN a.v < 0 /\ ~(IsInf(b) /\ b.v < 0)
  ELSE IF IsInf(b) THEN b.v > 0
  ELSE a.v < b.v

\* floor of the square root of n >= 0
RECURSIVE ISqrt(_)
ISqrt(n) ==
  IF n < 2 THEN n
  ELSE LET s == 2 * ISqrt(n \div 4)
       IN  IF (s + 1) * (s + 1) > n THEN s ELSE s + 1

FSqrt(a) ==
  IF IsNaN(a) THEN NaN
  ELSE IF IsInf(a) THEN (IF a.v > 0 THEN a ELSE NaN)
  ELSE IF a.v < 0 THEN NaN
  ELSE Num(ISqrt(a.v * ONE))

\* exp(-t / PREC) in units of 1/PREC, t >= 0: the series on a small
\* argument, squared back up
RECURSIVE ExpNegP(_)
ExpNegP(t) ==
  IF t > 16 * PREC THEN 0
  ELSE IF 4 * t <= PREC
    THEN LET t2 == (t * t) \div PREC
             t3 == (t2 * t) \div PREC
             t4 == (t3 * t) \div PREC
         IN  PREC - t + t2 \div 2 - t3 \div 6 + t4 \div 24
  ELSE LET h == ExpNegP(t \div 2)
       IN  (h * h) \div PREC

\* np.exp
FExp(a) ==
  IF IsNaN(a) THEN NaN
  ELSE IF IsInf(a) THEN (IF a.v > 0 THEN a ELSE Zero)
  ELSE IF a.v <= 0 THEN Num(RDiv(ExpNegP((-a.v) * (PREC \div ONE)), PREC \div ONE))
  ELSE LET d == ExpNegP(a.v * (PREC \div ONE))
       IN  IF d = 0 THEN Inf(1) ELSE Fin(RDiv(PREC * ONE, d))

\* ln 2 in units of 1/PREC
Ln2P == (PREC * 6931) \div 10000

\* ln(y / PREC) in units of 1/PREC, y > 0: halve or double into [1, 2),
\* then 2 * atanh((y - 1) / (y + 1)) by its series
RECURSIVE LnP(_)
LnP(y) ==
  IF y >= 2 * PREC THEN LnP(y \div 2) + Ln2P
  ELSE IF y < PREC THEN LnP(2 * y) - Ln2P
  ELSE LET z  == ((y - PREC) * PREC) \div (y + PREC)
           z2 == (z * z) \div PREC
           z3 == (z2 * z) \div PREC
           z5 == (z3 * z2) \div PREC
           z7 == (z5 * z2) \div PREC
       IN  2 * (z + z3 \div 3 + z5 \div 5 + z7 \div 7)

\* np.log: log(0) is -inf and the log of a negative number nan
FLog(a) ==
  IF IsNaN(a) THEN NaN
  ELSE IF IsInf(a) THEN (IF a.v > 0 THEN a ELSE NaN)
  ELSE IF a.v < 0 THEN NaN
  ELSE IF a.v = 0 THEN Inf(-1)
  ELSE LET l == LnP(a.v * (PREC \div ONE))
       IN  Num(Sign(l) * RDiv(Abs(l), PREC \div ONE))

\* 2 * np.pi
TwoPi == Num((ONE * 31416) \div 5000)

\* np.power(b, n) for a whole n >= 0
RECURSIVE FPow(_, _)
FPow(b, n) == IF n = 0 THEN Num(ONE) ELSE FMul(b, FPow(b, n - 1))

\* ------------------------------------------------------------------------
\* Bounds of the exploration
\* ------------------------------------------------------------------------

\* fit calls made on one estimator
MaxFits == 2

\* the count of completed EM iterations of a call stops growing here
IterCap == 2

\* ------------------------------------------------------------------------
\* State
\* ------------------------------------------------------------------------

VARIABLES
  means,               \* self.means: one entry per mean vector
  covariances,         \* self.covariances: one entry per 1x1 matrix
  mixing_probs,        \* self.mixing_probs
  no_components,       \* self.no_components
  epsilon,             \* self.epsilon
  features,            \* the argument of the fit call under way (or last made)
  norm_densities,      \* fit's local: n rows of no_components densities
  responsibilities,    \* fit's local: n rows of no_components posteriors
  old_log_likelihood,  \* fit's local
  log_likelihood,      \* fit's local
  pc,                  \* where fit stands; "idle" when no call is under way
  mi,                  \* the M-step's loop index i, from 1
  outcome,             \* how the last fit call ended
  partition,           \* what the last cluster call returned
  cluster_outcome,     \* how the last cluster call ended
  clustered,           \* the argument of the last cluster call
  hist                 \* history of the calls, read by the properties only

vars == << means, covariances, mixing_probs, no_components, epsilon, features,
           norm_densities, responsibilities, old_log_likelihood,
           log_likelihood, pc, mi, outcome, partition, cluster_outcome, clustered,
           hist >>

params == << means, covariances, mixing_probs, no_components, epsilon >>

locals == << norm_densities, responsibilities, old_log_likelihood,
             log_likelihood >>

\* ------------------------------------------------------------------------
\* Helpers of the numpy calls
\* ------------------------------------------------------------------------

\* np.dot of two 1-D arrays of equal length
RECURSIVE DotUpTo(_, _, _)
DotUpTo(u, v, n) ==
  IF n = 0 THEN Zero ELSE FAdd(DotUpTo(u, v, n - 1), FMul(u[n], v[n]))

Dot(u, v) == DotUpTo(u, v, Len(u))

\* np.ones(n)
Ones(n) == [i \in 1..n |-> Num(ONE)]

\* (matrix.T)[j]: column j of a matrix kept as a sequence of rows
Column(m, j) == [i \in 1..Len(m) |-> m[i][j]]

\* np.linalg.inv raises LinAlgError on this matrix
Singular(covariance) == IsNum(covariance) /\ covariance.v = 0

\* np.linalg.inv of a 1x1 matrix that is not singular
Inv(covariance) == FDiv(Num(ONE), covariance)

\* np.linalg.det of a 1x1 matrix
Det(covariance) == covariance

\* ------------------------------------------------------------------------
\* multivariate_normal_pdf
\* ------------------------------------------------------------------------

multivariate_normal_pdf(x, mean, covariance) ==
  LET centered    == FSub(x, mean)
      cov_inverse == Inv(covariance)
      cov_det     == Det(covariance)
      exponent    == FMul(FMul(centered, cov_inverse), centered)
  IN  FDiv(FExp(FMul(Num(-(ONE \div 2)), exponent)),
           FSqrt(FMul(cov_det, FPow(TwoPi, no_components))))

\* ------------------------------------------------------------------------
\* fit (lines 25-76), one action per stage of the loop body
\* ------------------------------------------------------------------------

\* n, _ = features.shape
NRows == Len(features)

\* what evaluating self.multivariate_normal_pdf(x, self.means[j],
\* self.covariances[j]) raises for component j: self.means[j] is indexed
\* before the call, and np.linalg.inv is the call's first use of the matrix
RaisedAt(j) ==
  IF j > Len(means) THEN "IndexError"
  ELSE IF Singular(covariances[j]) THEN "LinAlgError"
  ELSE "none"

\* what the density loops raise: the first failing component of row 0
DensityRaises ==
  IF NRows = 0 \/ \A j \in 1..no_components : RaisedAt(j) = "none"
    THEN "none"
    ELSE RaisedAt(CHOOSE j \in 1..no_components :
                    /\ RaisedAt(j) # "none"
                    /\ \A l \in 1..(j - 1) : RaisedAt(l) = "none")

\* np.dot(self.mixing_probs.T, norm_densities[i]) raises ValueError when the
\* two lengths differ
MixRaises ==
  IF NRows > 0 /\ Len(mixing_probs) # no_components THEN "ValueError" ELSE "none"

\* old_log_likelihood kept from the call before instead of set to 0
StaleOldLogLikelihood == log_likelihood

\* the value old_log_likelihood is given on entry (line 33)
InitialOldLogLikelihood == Zero

\* the call fit(f) is made: lines 30-33
Fit(f) ==
  /\ pc = "idle"
  /\ hist.fits < MaxFits
  /\ features' = f
  /\ norm_densities' = << >>
  /\ responsibilities' = << >>
  /\ old_log_likelihood' = InitialOldLogLikelihood
  /\ log_likelihood' = Zero
  /\ pc' = "density"
  /\ mi' = 1
  /\ outcome' = "running"
  /\ partition' = << >>
  /\ cluster_outcome' = "none"
  /\ clustered' = << >>
  /\ hist' = [ entry    |-> << means, covariances, mixing_probs >>,
               iters    |-> 0,
               fits     |-> hist.fits + 1,
               refit    |-> outcome = "returned" /\ features = f,
               first_ll |-> log_likelihood,
               m_old    |-> means,
               at_estep |-> << >> ]
  /\ UNCHANGED params

\* the call ends by an exception that reaches the caller
Raise(kind) ==
  /\ pc' = "idle"
  /\ outcome' = kind

\* lines 38-42: compute normal densities
DensityPass ==
  /\ pc = "density"
  /\ IF DensityRaises # "none"
       THEN /\ Raise(DensityRaises)
            /\ UNCHANGED norm_densities
       ELSE /\ norm_densities' =
                 [i \in 1..NRows |->
                    [j \in 1..no_components |->
                       multivariate_normal_pdf(features[i], means[j],
                                               covariances[j])]]
            /\ pc' = "loglik"
            /\ UNCHANGED outcome
  /\ UNCHANGED << params, features, responsibilities, old_log_likelihood,
                  log_likelihood, mi, partition, cluster_outcome, clustered, hist >>

\* line 45: the mixture density of row i
Mixture(i) == Dot(mixing_probs, norm_densities[i])

\* lines 45-46: the log likelihood of the current parameters
LogLikelihood ==
  LET log_vector == [i \in 1..NRows |-> FLog(Mixture(i))]
  IN  Dot(log_vector, Ones(NRows))

\* lines 44-46: estimate log likelihood
EstimateLogLikelihood ==
  /\ pc = "loglik"
  /\ IF MixRaises # "none"
       THEN /\ Raise(MixRaises)
            /\ UNCHANGED log_likelihood
       ELSE /\ log_likelihood' = LogLikelihood
            /\ pc' = "check"
            /\ UNCHANGED outcome
  /\ UNCHANGED << params, features, norm_densities, responsibilities,
                  old_log_likelihood, mi, partition, cluster_outcome, clustered, hist >>

\* the comparison made against 1.0 instead of self.epsilon
ConvergedFixedThreshold ==
  FLess(FAbs(FSub(log_likelihood, old_log_likelihood)), Num(ONE))

\* line 49: np.absolute(log_likelihood - old_log_likelihood) < self.epsilon
Converged ==
  FLess(FAbs(FSub(log_likelihood, old_log_likelihood)), epsilon)

\* lines 48-50: check for convergence; the break ends the call
CheckConvergence ==
  /\ pc = "check"
  /\ IF Converged
       THEN /\ pc' = "idle"
            /\ outcome' = "returned"
       ELSE /\ pc' = "estep"
            /\ UNCHANGED outcome
  /\ UNCHANGED << params, features, locals, mi, partition, cluster_outcome,
                  clustered, hist >>

\* line 57: responsibilities[i][j]
Responsibility(i, j) ==
  FDiv(FMul(mixing_probs[j], norm_densities[i][j]), Mixture(i))

\* lines 52-57: E-step
EStep ==
  /\ pc = "estep"
  /\ responsibilities' =
       [i \in 1..NRows |-> [j \in 1..no_components |-> Responsibility(i, j)]]
  /\ pc' = "m_mean"
  /\ mi' = 1
  /\ hist' = [hist EXCEPT !.m_old = means,
                           !.at_estep = << means, covariances, mixing_probs,
                                           log_likelihood, old_log_likelihood >>]
  /\ UNCHANGED << params, features, norm_densities, old_log_likelihood,
                  log_likelihood, outcome, partition, cluster_outcome,
                  clustered >>

\* line 64: the common denominator of component j
Denominator(j) ==
  LET responsibility == Column(responsibilities, j)
  IN  Dot(responsibility, Ones(NRows))

\* line 67: the new mean of component j
UpdatedMean(j) ==
  LET responsibility == Column(responsibilities, j)
  IN  FDiv(Dot(responsibility, features), Denominator(j))

\* the covariance taken about the mean held before this M-step
UpdatedCovarianceOldMean(j) ==
  LET responsibility == Column(responsibilities, j)
      difference     == [i \in 1..NRows |-> FSub(features[i], hist.m_old[j])]
      weighted       == [i \in 1..NRows |-> FMul(responsibility[i], difference[i])]
  IN  FDiv(Dot(weighted, difference), Denominator(j))

\* lines 70-71: the new covariance of component j, about self.means[j]
UpdatedCovariance(j) ==
  LET responsibility == Column(responsibilities, j)
      difference     == [i \in 1..NRows |-> FSub(features[i], means[j])]
      weighted       == [i \in 1..NRows |-> FMul(responsibility[i], difference[i])]
  IN  FDiv(Dot(weighted, difference), Denominator(j))

\* line 74: the new mixing probability of component j
UpdatedMixingProb(j) == FDiv(Denominator(j), Num(NRows * ONE))

\* line 67: update mean
MUpdateMean ==
  /\ pc = "m_mean"
  /\ means' = [means EXCEPT ![mi] = UpdatedMean(mi)]
  /\ pc' = "m_cov"
  /\ UNCHANGED << covariances, mixing_probs, no_components, epsilon, features,
                  locals, mi, outcome, partition, cluster_outcome, clustered, hist >>

\* lines 70-71: update covariance
MUpdateCovariance ==
  /\ pc = "m_cov"
  /\ covariances' = [covariances EXCEPT ![mi] = UpdatedCovariance(mi)]
  /\ pc' = "m_mix"
  /\ UNCHANGED << means, mixing_probs, no_components, epsilon, features,
                  locals, mi, outcome, partition, cluster_outcome, clustered, hist >>

\* line 74: update mixing probabilities, then the next component; after the
\* last one, line 76: old_log_likelihood = log_likelihood
MUpdateMixingProb ==
  /\ pc = "m_mix"
  /\ mixing_probs' = [mixing_probs EXCEPT ![mi] = UpdatedMixingProb(mi)]
  /\ IF mi < no_components
       THEN /\ mi' = mi + 1
            /\ pc' = "m_mean"
            /\ UNCHANGED << old_log_likelihood, hist >>
       ELSE /\ mi' = 1
            /\ pc' = "density"
            /\ old_log_likelihood' = log_likelihood
            /\ hist' = [hist EXCEPT !.iters =
                          IF @ < IterCap THEN @ + 1 ELSE @]
  /\ UNCHANGED << means, covariances, no_components, epsilon, features,
                  norm_densities, responsibilities, log_likelihood, outcome,
                  partition, cluster_outcome, clustered >>

\* ------------------------------------------------------------------------
\* cluster (lines 78-101)
\* ------------------------------------------------------------------------

\* line 88: named cov_inverses, and holding the determinants
cov_inverses == [j \in 1..no_components |-> Det(covariances[j])]

\* line 96: distances[j] for the row x
Distance(x, j) ==
  FMul(FMul(FSub(x, means[j]), cov_inverses[j]), FSub(x, means[j]))

\* np.argmin of a 1-D array, from 1: the first nan when there is one (nan
\* propagates as the minimum), else the first occurrence of the least value
ArgMin(d) ==
  IF \E j \in 1..Len(d) : IsNaN(d[j])
    THEN CHOOSE j \in 1..Len(d) :
           /\ IsNaN(d[j])
           /\ \A l \in 1..(j - 1) : ~IsNaN(d[l])
    ELSE CHOOSE j \in 1..Len(d) :
           /\ \A l \in 1..Len(d) : ~FLess(d[l], d[j])
           /\ \A l \in 1..(j - 1) : FLess(d[j], d[l])

\* lines 91-99: the component of each row, counted from 0 as numpy does
Assignment(f) ==
  [i \in 1..Len(f) |->
     ArgMin([j \in 1..no_components |-> Distance(f[i], j)]) - 1]

\* cluster centring self.means in place on the last row (means[j] -= x)
ClusterCentringInPlace(f) ==
  /\ pc = "idle"
  /\ IF Len(f) > 0 /\ Len(means) < no_components
       THEN /\ cluster_outcome' = "IndexError"
            /\ partition' = << >>
            /\ UNCHANGED means
       ELSE /\ cluster_outcome' = "returned"
            /\ partition' = Assignment(f)
            /\ means' = IF Len(f) = 0 THEN means
                        ELSE [j \in 1..Len(means) |->
                                IF j <= no_components
                                  THEN FSub(means[j], f[Len(f)])
                                  ELSE means[j]]
  /\ clustered' = f
  /\ UNCHANGED << covariances, mixing_probs, no_components, epsilon,
                  features, locals, pc, mi, outcome, hist >>

\* the call cluster(f), whole: self.means[j] raises IndexError when means is
\* shorter than no_components; nothing else raises and nothing of self is
\* assigned
Cluster(f) ==
  /\ pc = "idle"
  /\ IF Len(f) > 0 /\ Len(means) < no_components
       THEN /\ cluster_outcome' = "IndexError"
            /\ partition' = << >>
       ELSE /\ cluster_outcome' = "returned"
            /\ partition' = Assignment(f)
  /\ clustered' = f
  /\ UNCHANGED << params, features, locals, pc, mi, outcome, hist >>

\* ------------------------------------------------------------------------
\* The estimators and the feature matrices explored
\* ------------------------------------------------------------------------

\* component counts K = covariances.shape[0]
Components == {1, 2}

\* entries of the initial means
MeanGrid == {Num(0), Num(ONE)}

\* entries of the initial covariances: 0 is a singular matrix
CovGrid == {Num(0), Num(ONE \div 8), Num(ONE)}

\* entries of the initial mixing probabilities
WeightGrid == {Num(0), Num(ONE \div 2), Num(ONE)}

\* the convergence criteria
Epsilons == {Num(ONE \div 2), Num(ONE)}

\* the sequences of length n over S
SeqsOf(S, n) == [1..n -> S]

\* mixing probabilities of length n that sum to 1
Weights(n) == {w \in SeqsOf(WeightGrid, n) : Dot(w, Ones(n)) = Num(ONE)}

\* the feature matrices passed to fit and cluster, one entry per row
FeatureSets ==
  { << >>,
    << Num(ONE) >>,
    << Num(-2 * ONE), Num(-ONE), Num(ONE), Num(2 * ONE) >>,
    << Num(0), Num(40 * ONE) >> }

\* __init__ (lines 19-23) stores what it is given and checks nothing: the
\* lengths of means and mixing_probs need not be no_components
Construct(m, c, w, e) ==
  /\ means = m
  /\ covariances = c
  /\ mixing_probs = w
  /\ no_components = Len(c)
  /\ epsilon = e

\* an estimator whose arrays agree in length
WellShaped ==
  \E K \in Components :
    \E m \in SeqsOf(MeanGrid, K), c \in SeqsOf(CovGrid, K), w \in Weights(K),
       e \in Epsilons :
      Construct(m, c, w, e)

\* an estimator of two components given one or three means, or one or
\* three mixing probabilities
MisShaped ==
  \E lm \in 1..3, lw \in 1..3 :
    /\ (lm # 2) # (lw # 2)
    /\ \E c \in SeqsOf({Num(ONE)}, 2), e \in {Num(ONE \div 2)} :
         Construct([j \in 1..lm |-> Num(ONE * (j - 1))], c,
                   [j \in 1..lw |-> Num(ONE \div 2)], e)

Init ==
  /\ WellShaped \/ MisShaped
  /\ features = << >>
  /\ norm_densities = << >>
  /\ responsibilities = << >>
  /\ old_log_likelihood = Zero
  /\ log_likelihood = Zero
  /\ pc = "idle"
  /\ mi = 1
  /\ outcome = "none"
  /\ partition = << >>
  /\ cluster_outcome = "none"
  /\ clustered = << >>
  /\ hist = [ entry    |-> << means, covariances, mixing_probs >>,
              iters    |-> 0,
              fits     |-> 0,
              refit    |-> FALSE,
              first_ll |-> Zero,
              m_old    |-> means,
              at_estep |-> << >> ]

\* the steps of a fit call under way
FitStep ==
  \/ DensityPass
  \/ EstimateLogLikelihood
  \/ CheckConvergence
  \/ EStep
  \/ MUpdateMean
  \/ MUpdateCovariance
  \/ MUpdateMixingProb

Next ==
  \/ \E f \in FeatureSets : Fit(f)
  \/ \E f \in FeatureSets : Cluster(f)
  \/ FitStep

Spec == Init /\ [][Next]_vars

\* ------------------------------------------------------------------------
\* Properties
\* ------------------------------------------------------------------------

\* the three parameter arrays fit assigns
arrays == << means, covariances, mixing_probs >>

\* means and mixing_probs have one entry per component
ShapesAgree ==
  Len(means) = no_components /\ Len(mixing_probs) = no_components

\* a fit call has returned through the break of line 50
FitReturned == pc = "idle" /\ outcome = "returned"

\* |a - b| < e over the floats
Within(a, b, e) == FLess(FAbs(FSub(a, b)), e)

\* the slack allowed to a sum of rounded mixing probabilities
WeightTolerance == ONE \div 64

\* every mixing probability is a number in [0, 1] and they sum to 1
WeightsSumToOne ==
  /\ \A j \in 1..Len(mixing_probs) :
       /\ IsNum(mixing_probs[j])
       /\ 0 <= mixing_probs[j].v
       /\ mixing_probs[j].v <= ONE
  /\ LET total == Dot(mixing_probs, Ones(Len(mixing_probs)))
     IN  IsNum(total) /\ Abs(total.v - ONE) <= WeightTolerance

\* the last M-step of the call under way (or just ended) updated every
\* component, and no later M-step has begun
AfterCompletedMStep ==
  hist.iters >= 1 /\ pc \in {"density", "loglik", "check", "estep", "idle"}

\* C1: with arrays of agreeing lengths, when fit has returned, and at every
\* point after a completed M-step, the mixing weights lie in [0, 1] and sum
\* to 1 within tolerance.
C1_MixingWeightsSumToOne ==
  (ShapesAgree /\ (FitReturned \/ AfterCompletedMStep)) => WeightsSumToOne

\* C2: every call to fit runs to completion.  The loop body is a function of
\* the parameters and the two log likelihoods, so a call that has not
\* converged and begins an E-step from exactly the state it began the E-step
\* before from repeats that iteration for ever; a call that runs to
\* completion never does so.
C2_FitRunsToCompletion ==
  ~( /\ pc = "estep"
     /\ hist.at_estep = << means, covariances, mixing_probs, log_likelihood,
                           old_log_likelihood >> )

\* some row has a mixture density of exactly 0
ZeroMixture == \E i \in 1..NRows : Mixture(i) = Zero

\* C3: a zero denominator ends the call in an error: fit never goes on to
\* the M-step past an E-step that divided by a zero mixture density, and
\* never goes on past storing a mean divided by an effective count of 0.
C3_ZeroDenominatorRaises ==
  /\ ~(pc = "m_mean" /\ mi = 1 /\ ZeroMixture)
  /\ ~(pc = "m_cov" /\ Denominator(mi) = Zero)

\* some component's covariance matrix is singular
SomeSingular == \E j \in 1..no_components : Singular(covariances[j])

\* C4: with a singular covariance matrix, fit and cluster end in an error:
\* fit does not get past the density loops over a non-empty feature matrix,
\* and cluster does not return a partition of one.
C4_SingularCovarianceRaises ==
  SomeSingular =>
    /\ ~(pc = "loglik" /\ NRows > 0)
    /\ ~(pc = "idle" /\ cluster_outcome = "returned" /\ Len(partition) > 0)

\* C5: when means or mixing_probs differ in length from the covariances, fit
\* fails before its first iteration: it never gets past the density loops
\* and leaves every parameter as it was on entry.
C5_ShapeMismatchFailsFast ==
  ~ShapesAgree => (pc \in {"idle", "density"} /\ arrays = hist.entry)

\* d_j = (x - mean_j)^T det(covariance_j) (x - mean_j)
DetDistance(x, j) ==
  FMul(FMul(FSub(x, means[j]), Det(covariances[j])), FSub(x, means[j]))

\* p, counted from 0, is the lowest index minimising d over the components
LowestMinimiser(x, p) ==
  /\ p \in 0..(no_components - 1)
  /\ \A j \in 1..no_components :
       ~FLess(DetDistance(x, j), DetDistance(x, p + 1))
  /\ \A j \in 1..p : FLess(DetDistance(x, p + 1), DetDistance(x, j))

\* C6: cluster returns one index per row, each in [0, K) and each the lowest
\* index minimising d_j over the K components.
C6_ClusterIsLowestArgMin ==
  (pc = "idle" /\ cluster_outcome = "returned") =>
    /\ Len(partition) = Len(clustered)
    /\ \A i \in 1..Len(clustered) : LowestMinimiser(clustered[i], partition[i])

\* C7: a cluster call (the only step from idle to idle) leaves the means,
\* the covariances, the mixing weights, K and epsilon as they were.
C7_ClusterChangesNothing ==
  [][ (pc = "idle" /\ pc' = "idle") => UNCHANGED params ]_vars

\* C7 witness: cluster has returned a partition from parameters a fit moved
C7_Witness ==
  /\ pc = "idle"
  /\ cluster_outcome = "returned"
  /\ Len(partition) > 0
  /\ hist.iters >= 1
  /\ arrays # hist.entry

\* a refit: fit returned by convergence and is called again on the same
\* features; hist.first_ll is the first call's final log likelihood
RefitReturned == FitReturned /\ hist.refit

\* C8 as stated: after a refit the log likelihood differs from that after
\* the first call by less than epsilon.
C8_RefitWithinEpsilon ==
  RefitReturned => Within(log_likelihood, hist.first_ll, epsilon)

\* C8 amended: the same, for a refit that returns at its first or second
\* convergence check, that is after at most one EM iteration.
C8_ShortRefitWithinEpsilon ==
  (RefitReturned /\ hist.iters <= 1) =>
    Within(log_likelihood, hist.first_ll, epsilon)

\* C8 witness: a refit returned after exactly one EM iteration that moved
\* the log likelihood
C8_Witness ==
  /\ RefitReturned
  /\ hist.iters = 1
  /\ log_likelihood # hist.first_ll
  /\ NRows > 0

\* the weighted mean of the features under component j's responsibilities
WeightedMean(j) ==
  FDiv(DotUpTo([i \in 1..NRows |-> responsibilities[i][j]], features, NRows),
       DotUpTo([i \in 1..NRows |-> responsibilities[i][j]], Ones(NRows), NRows))

\* the weighted covariance of the features about m under component j's
\* responsibilities
WeightedCovarianceAbout(j, m) ==
  FDiv(DotUpTo([i \in 1..NRows |->
                  FMul(responsibilities[i][j], FSub(features[i], m))],
               [i \in 1..NRows |-> FSub(features[i], m)], NRows),
       DotUpTo([i \in 1..NRows |-> responsibilities[i][j]], Ones(NRows), NRows))

\* entry j of the three arrays is left alone
KeepsComponent(j) ==
  /\ (j <= Len(means) => means'[j] = means[j])
  /\ covariances'[j] = covariances[j]
  /\ (j <= Len(mixing_probs) => mixing_probs'[j] = mixing_probs[j])

\* C9: in the M-step, once means[j] and covariances[j] are stored and before
\* mixingWeights[j] is, means[j] is the new weighted mean and covariances[j]
\* the weighted covariance about that stored mean; the mean is stored first,
\* the covariance second, the mixing weight third, and no step of component
\* j touches another component.
C9_MeanBeforeCovariance ==
  /\ [](pc = "m_mix" =>
          /\ means[mi] = WeightedMean(mi)
          /\ covariances[mi] = WeightedCovarianceAbout(mi, means[mi]))
  /\ [][ /\ pc = "m_mean" =>
              (pc' = "m_cov" /\ mi' = mi /\ UNCHANGED << covariances, mixing_probs >>)
         /\ pc = "m_cov" =>
              (pc' = "m_mix" /\ mi' = mi /\ UNCHANGED << means, mixing_probs >>)
         /\ pc = "m_mix" =>
              (/\ UNCHANGED << means, covariances >>
               /\ pc' = "m_mean" => mi' = mi + 1)
         /\ pc \in {"m_mean", "m_cov", "m_mix"} =>
              \A j \in 1..no_components : j # mi => KeepsComponent(j) ]_vars

\* C9 witness: the covariance of a component has been stored about a mean
\* that the M-step moved, and the mean held before gives another covariance
C9_Witness ==
  /\ pc = "m_mix"
  /\ IsNum(covariances[mi])
  /\ means[mi] # hist.m_old[mi]
  /\ covariances[mi] # WeightedCovarianceAbout(mi, hist.m_old[mi])

\* the log likelihood of the features under the parameters now held
LogLikelihoodOfParams ==
  DotUpTo([i \in 1..NRows |->
             FLog(DotUpTo(mixing_probs,
                          [j \in 1..no_components |->
                             multivariate_normal_pdf(features[i], means[j],
                                                     covariances[j])],
                          no_components))],
          Ones(NRows), NRows)

\* C10: a call begins with previousLogLikelihood = 0; the check returns at
\* once, changing nothing, when |logLikelihood - previousLogLikelihood| <
\* epsilon, and goes on to the E-step otherwise; so at return the difference
\* is below epsilon, the log likelihood is that of the parameters returned,
\* and a call that returns at its first check leaves the parameters as they
\* were on entry.
C10_StoppingRule ==
  /\ []((pc = "density" /\ hist.iters = 0) => old_log_likelihood = Zero)
  /\ [](FitReturned =>
          /\ Within(log_likelihood, old_log_likelihood, epsilon)
          /\ log_likelihood = LogLikelihoodOfParams
          /\ (hist.iters = 0 => arrays = hist.entry))
  /\ [][ pc = "check" =>
           IF Within(log_likelihood, old_log_likelihood, epsilon)
             THEN pc' = "idle" /\ outcome' = "returned" /\ UNCHANGED params
             ELSE pc' = "estep" /\ UNCHANGED params ]_vars

\* C10 witness: a call returned at its first check over a non-empty feature
\* matrix, the log likelihood of its initial parameters being below epsilon
C10_Witness ==
  /\ FitReturned
  /\ hist.iters = 0
  /\ NRows > 0
  /\ log_likelihood # Zero

====
